---- MODULE Spec2Model ----
(***************************************************************************)
(* Octree colour quantization of render/quantization.h: Node, Octree, the  *)
(* palette-from-sprite driver and the pixel-format converter.              *)
(*                                                                         *)
(* The header holds the classes, their constructors and the declarations   *)
(* of the two drivers.  The bodies of Node::AddColor, Node::GetIndex,      *)
(* Node::GetColor, Node::GetLeavesCount, Node::KillLastLevel,              *)
(* Node::FillSubtotalVector, Octree::AddColor, Octree::GeneratePalette,    *)
(* create_palette_from_sprite and convert_pixel_format live in a           *)
(* translation unit that is not part of the sources; they are modelled     *)
(* from the component design (sections 4.1, 4.2, 4.4 and 5).               *)
(***************************************************************************)
EXTENDS Integers, Sequences, FiniteSets, TLC

VARIABLES
  pc,        \* "new" | "ready" | "failed" | "generated" | "hung"
  args,      \* the constructor's arguments (history)
  octree,    \* the Octree object: m_palette, m_root, m_levelDeep
  fed,       \* history: how many times each colour was passed to AddColor
  kills,     \* history: direct calls of m_root.KillLastLevel()
  genKills,  \* history: calls of KillLastLevel made by GeneratePalette
  palette,   \* the caller's Palette, written by GeneratePalette
  cps,       \* the running call of create_palette_from_sprite
  spritePalette,  \* the Palette passed to it as newPalette
  cv,        \* the running call of convert_pixel_format
  dstImage,  \* the rows of the destination image
  dlg,       \* the script Dialog: showRef, L, its window and its signals
  lua,       \* the lua_State: stack, registry references, C frames
  tr,        \* history of the dialog: calls counted, last close, last handler
  ff,        \* the last call of FloodFillPointShape::floodfillBounds
  spray      \* the SprayPointShape: m_pointRemainder and what it painted

octreeVars == <<pc, args, octree, fed, kills, genKills, palette>>
spriteVars == <<cps, spritePalette>>
convertVars == <<cv, dstImage>>
scriptVars == <<dlg, lua, tr>>
toolVars == <<ff, spray>>
vars == <<octreeVars, spriteVars, convertVars, scriptVars, toolVars>>

---------------------------------------------------------------------------
(* Bounds of the model.                                                    *)

MaxAdds == 4
MaxKills == 2
MaxTarget == 2
MaxLevelDeep == 9

---------------------------------------------------------------------------
(* doc::color_t: a packed RGBA value, one byte per channel.  The four     *)
(* bytes are kept apart, as <<r, g, b, a>>; packing keeps the low eight    *)
(* bits of each channel.                                                   *)

rgba(r, g, b, a) == << r % 256, g % 256, b % 256, a % 256 >>
rgba_getr(c) == c[1]
rgba_getg(c) == c[2]
rgba_getb(c) == c[3]
rgba_geta(c) == c[4]

\* The colours fed to the octree: the three primaries, a colour that shares
\* its six top bit planes with red, and a translucent red.
ColorSeq ==
  << rgba(255, 0, 0, 255), rgba(0, 255, 0, 255), rgba(0, 0, 255, 255),
     rgba(253, 0, 0, 255), rgba(255, 0, 0, 127) >>
Colors == { ColorSeq[i] : i \in DOMAIN ColorSeq }

Targets == -1 .. MaxTarget
LevelDeeps == 0 .. MaxLevelDeep

---------------------------------------------------------------------------
(* base: CLAMP(x, y, z) is MAX(x, MIN(y, z)).                              *)

MIN(x, y) == IF x < y THEN x ELSE y
MAX(x, y) == IF x > y THEN x ELSE y
CLAMP(x, y, z) == MAX(x, MIN(y, z))

---------------------------------------------------------------------------
(* int: 32 bits, signed.  An addition that leaves the range is undefined   *)
(* behaviour; Int32Add gives the value a two's complement build leaves     *)
(* behind, and AddOverflows tells that the addition left the range.        *)

Int32Max == 2147483647
Int32Min == -Int32Max - 1

AddOverflows(a, b) ==
  \/ (b > 0 /\ a > Int32Max - b)
  \/ (b < 0 /\ a < Int32Min - b)

Int32Add(a, b) ==
  IF b > 0 /\ a > Int32Max - b THEN (a + Int32Min) + (b + Int32Min)
  ELSE IF b < 0 /\ a < Int32Min - b THEN (a - Int32Min) + (b - Int32Min)
  ELSE a + b

\* a / b of two ints, b > 0: the quotient is truncated toward zero.
Int32Div(a, b) == IF a >= 0 THEN a \div b ELSE -((-a) \div b)

---------------------------------------------------------------------------
(* Node.  m_children is a std::vector<Node>; an element that nothing has   *)
(* visited since the constructor pushed it is kept as the constructor call *)
(* that made it (Deferred) and is built when first read (Built).           *)

Deferred(leafLevel, haveChildren, levelDeep, withAlpha) ==
  [ lazy |-> TRUE, leafLevel |-> leafLevel, haveChildren |-> haveChildren,
    levelDeep |-> levelDeep, withAlpha |-> withAlpha ]

\* seq repeated n times.
RECURSIVE Repeat(_, _)
Repeat(seq, n) == IF n <= 0 THEN << >> ELSE seq \o Repeat(seq, n - 1)

\* Node::Node(int leafLevel, bool haveChildren, int levelDeep, bool
\* withAlpha), the member initializers: the node's own fields.
NodeFields(leafLevel, haveChildren, withAlpha) ==
  [ lazy |-> FALSE,
    m_nodeLevel |-> leafLevel,
    m_haveChildren |-> haveChildren,
    m_withAlpha |-> withAlpha,
    m_children |-> << >>,
    m_pixel_count |-> 0,
    m_R_AcumChannel |-> 0,
    m_G_AcumChannel |-> 0,
    m_B_AcumChannel |-> 0,
    m_A_AcumChannel |-> 0 ]

\* NodeChildren off by one: levelDeep > leafLevel, one level too many.
NodeChildren_OneLevelMore(leafLevel, levelDeep, withAlpha) ==
  IF levelDeep > leafLevel
    THEN [ i \in 1 .. (IF withAlpha THEN 16 ELSE 8) |->
             Deferred(leafLevel + 1,
                      IF levelDeep = leafLevel + 1 THEN FALSE ELSE TRUE,
                      levelDeep, withAlpha) ]
    ELSE << >>

\* The constructor's body: the children pushed into m_children.
NodeChildren(leafLevel, levelDeep, withAlpha) ==
  IF levelDeep > leafLevel + 1
    THEN [ i \in 1 .. (IF withAlpha THEN 16 ELSE 8) |->
             Deferred(leafLevel + 1,
                      IF levelDeep = leafLevel + 2 THEN FALSE ELSE TRUE,
                      levelDeep, withAlpha) ]
    ELSE << >>

NodeCtor(leafLevel, haveChildren, levelDeep, withAlpha) ==
  [ NodeFields(leafLevel, haveChildren, withAlpha) EXCEPT
      !.m_children = NodeChildren(leafLevel, levelDeep, withAlpha) ]

IsLazy(node) == node.lazy

Built(node) ==
  IF IsLazy(node)
    THEN NodeCtor(node.leafLevel, node.haveChildren, node.levelDeep,
                  node.withAlpha)
    ELSE node

\* The node's own fields, built or not.
Fields(node) ==
  IF IsLazy(node)
    THEN NodeFields(node.leafLevel, node.haveChildren, node.withAlpha)
    ELSE node

PixelCount(node) == Fields(node).m_pixel_count

---------------------------------------------------------------------------
(* Node's methods (modelled from section 4.1).                             *)

\* The bit of channel value v that level `level` partitions on: position
\* 7 - level, taken with the mask 0x80 >> level.
LevelBit(v, level) ==
  LET mask == IF level > 7 THEN 0 ELSE 2 ^ (7 - level)
  IN  IF mask = 0 THEN 0 ELSE (v \div mask) % 2

\* Node::GetIndex(c): the child that colour c falls in at this node's level.
GetIndex(node, c) ==
  4 * LevelBit(rgba_getr(c), node.m_nodeLevel)
  + 2 * LevelBit(rgba_getg(c), node.m_nodeLevel)
  + LevelBit(rgba_getb(c), node.m_nodeLevel)
  + (IF node.m_withAlpha THEN 8 * LevelBit(rgba_geta(c), node.m_nodeLevel)
                         ELSE 0)

\* A node accumulates when it is a leaf: its flag says so, or it sits at the
\* last level built and has no child to descend into ("at depth maxDepth all
\* nodes are forced leaves regardless of the hasChildren flag").
IsLeaf(node) == ~node.m_haveChildren \/ Len(node.m_children) = 0

\* Node::AddColor(c)
RECURSIVE NodeAddColor(_, _)

\* AddColorBuilt with the sums assigned instead of added to (= for +=).
AddColorBuilt_Overwrite(n, c) ==
  IF IsLeaf(n)
    THEN [ n EXCEPT !.m_pixel_count = @ + 1,
                    !.m_R_AcumChannel = rgba_getr(c),
                    !.m_G_AcumChannel = rgba_getg(c),
                    !.m_B_AcumChannel = rgba_getb(c),
                    !.m_A_AcumChannel = rgba_geta(c) ]
    ELSE [ n EXCEPT !.m_children[GetIndex(n, c) + 1] = NodeAddColor(@, c) ]

AddColorBuilt(n, c) ==
  IF IsLeaf(n)
    THEN [ n EXCEPT !.m_pixel_count = Int32Add(@, 1),
                    !.m_R_AcumChannel = Int32Add(@, rgba_getr(c)),
                    !.m_G_AcumChannel = Int32Add(@, rgba_getg(c)),
                    !.m_B_AcumChannel = Int32Add(@, rgba_getb(c)),
                    !.m_A_AcumChannel = Int32Add(@, rgba_geta(c)) ]
    ELSE [ n EXCEPT !.m_children[GetIndex(n, c) + 1] = NodeAddColor(@, c) ]
NodeAddColor(node, c) == AddColorBuilt(Built(node), c)

\* k calls of AddColor(c) in a row, k * 255 within int: they walk the same
\* path to the same leaf, whose sums grow k times by the same amounts.
RECURSIVE NodeAddColorTimes(_, _, _)
AddColorTimesBuilt(n, c, k) ==
  IF IsLeaf(n)
    THEN [ n EXCEPT !.m_pixel_count = Int32Add(@, k),
                    !.m_R_AcumChannel = Int32Add(@, k * rgba_getr(c)),
                    !.m_G_AcumChannel = Int32Add(@, k * rgba_getg(c)),
                    !.m_B_AcumChannel = Int32Add(@, k * rgba_getb(c)),
                    !.m_A_AcumChannel = Int32Add(@, k * rgba_geta(c)) ]
    ELSE [ n EXCEPT !.m_children[GetIndex(n, c) + 1] =
                      NodeAddColorTimes(@, c, k) ]
NodeAddColorTimes(node, c, k) == AddColorTimesBuilt(Built(node), c, k)

\* Whether one of the additions of k calls of AddColor(c) leaves the range
\* of int: the sums only grow, so one does when the last one does.
RECURSIVE AddColorOverflows(_, _, _)
AddColorOverflowsBuilt(n, c, k) ==
  IF IsLeaf(n)
    THEN \/ AddOverflows(n.m_pixel_count, k)
         \/ AddOverflows(n.m_R_AcumChannel, k * rgba_getr(c))
         \/ AddOverflows(n.m_G_AcumChannel, k * rgba_getg(c))
         \/ AddOverflows(n.m_B_AcumChannel, k * rgba_getb(c))
         \/ AddOverflows(n.m_A_AcumChannel, k * rgba_geta(c))
    ELSE AddColorOverflows(n.m_children[GetIndex(n, c) + 1], c, k)
AddColorOverflows(node, c, k) == AddColorOverflowsBuilt(Built(node), c, k)

\* Node::GetColor(): the average colour of a non-empty leaf.
GetColor(node) ==
  rgba(Int32Div(node.m_R_AcumChannel, node.m_pixel_count),
       Int32Div(node.m_G_AcumChannel, node.m_pixel_count),
       Int32Div(node.m_B_AcumChannel, node.m_pixel_count),
       Int32Div(node.m_A_AcumChannel, node.m_pixel_count))

\* x to the power n, for n >= 0.
RECURSIVE Power(_, _)
Power(x, n) == IF n <= 0 THEN 1 ELSE x * Power(x, n - 1)

\* The number of leaves under a node nothing has visited yet.
DeferredLeaves(node) ==
  Power(IF node.withAlpha THEN 16 ELSE 8,
        MAX(0, node.levelDeep - 1 - node.leafLevel))

RECURSIVE SumRange(_, _, _, _)
SumRange(Op(_), seq, lo, hi) ==
  IF lo > hi THEN 0
  ELSE IF lo = hi THEN Op(seq[lo])
  ELSE Int32Add(SumRange(Op, seq, lo, (lo + hi) \div 2),
                SumRange(Op, seq, (lo + hi) \div 2 + 1, hi))

SumOver(Op(_), seq, i) == SumRange(Op, seq, i, Len(seq))

\* Node::GetLeavesCount: the number of non-empty leaves under the node.
RECURSIVE LeavesCount(_)
LeavesCount(node) ==
  IF IsLazy(node)
    THEN (IF PixelCount(node) > 0 THEN DeferredLeaves(node) ELSE 0)
    ELSE IF IsLeaf(node)
      THEN (IF node.m_pixel_count > 0 THEN 1 ELSE 0)
      ELSE SumOver(LeavesCount, node.m_children, 1)

\* The sum of one statistic over the children of a node.
ChildPixels(node) == Fields(node).m_pixel_count
ChildR(node) == Fields(node).m_R_AcumChannel
ChildG(node) == Fields(node).m_G_AcumChannel
ChildB(node) == Fields(node).m_B_AcumChannel
ChildA(node) == Fields(node).m_A_AcumChannel

\* KillLastLevel on a subtree nothing has visited: a subtree built for
\* levelDeep levels with its last level collapsed is the subtree the
\* constructor builds for levelDeep - 1 levels, and its root becomes a leaf
\* when its children were the last level.
DeferredKillLastLevel(node) ==
  IF node.levelDeep > node.leafLevel + 1
    THEN Deferred(node.leafLevel,
                  IF node.levelDeep = node.leafLevel + 2
                    THEN FALSE ELSE node.haveChildren,
                  node.levelDeep - 1, node.withAlpha)
    ELSE node

\* Op applied to every element of seq from index i on.
MapOver(Op(_), seq, i) == [ k \in 1 .. (Len(seq) - i + 1) |-> Op(seq[k + i - 1]) ]

\* Node::KillLastLevel(): an internal node whose children are leaves takes
\* their statistics, drops them and becomes a leaf; any other internal node
\* passes the call to its children.
RECURSIVE NodeKillLastLevel(_)
NodeKillLastLevel(node) ==
  IF IsLazy(node) THEN DeferredKillLastLevel(node)
  ELSE IF IsLeaf(node) THEN node
  ELSE IF IsLeaf(Built(node.m_children[1]))
    THEN [ node EXCEPT
             !.m_pixel_count =
                Int32Add(@, SumOver(ChildPixels, node.m_children, 1)),
             !.m_R_AcumChannel =
                Int32Add(@, SumOver(ChildR, node.m_children, 1)),
             !.m_G_AcumChannel =
                Int32Add(@, SumOver(ChildG, node.m_children, 1)),
             !.m_B_AcumChannel =
                Int32Add(@, SumOver(ChildB, node.m_children, 1)),
             !.m_A_AcumChannel =
                Int32Add(@, SumOver(ChildA, node.m_children, 1)),
             !.m_children = << >>,
             !.m_haveChildren = FALSE ]
    ELSE [ node EXCEPT
             !.m_children = MapOver(NodeKillLastLevel, @, 1) ]

\* Whether one of the additions of KillLastLevel leaves the range of int:
\* a parent adds its children's statistics to its own one child after the
\* other.
RECURSIVE RunOverflows(_, _, _, _)
RunOverflows(Op(_), acc, seq, i) ==
  IF i > Len(seq) THEN FALSE
  ELSE \/ AddOverflows(acc, Op(seq[i]))
       \/ RunOverflows(Op, Int32Add(acc, Op(seq[i])), seq, i + 1)

RECURSIVE KillOverflows(_)
KillOverflows(node) ==
  IF IsLazy(node) THEN FALSE
  ELSE IF IsLeaf(node) THEN FALSE
  ELSE IF IsLeaf(Built(node.m_children[1]))
    THEN \/ RunOverflows(ChildPixels, node.m_pixel_count, node.m_children, 1)
         \/ RunOverflows(ChildR, node.m_R_AcumChannel, node.m_children, 1)
         \/ RunOverflows(ChildG, node.m_G_AcumChannel, node.m_children, 1)
         \/ RunOverflows(ChildB, node.m_B_AcumChannel, node.m_children, 1)
         \/ RunOverflows(ChildA, node.m_A_AcumChannel, node.m_children, 1)
    ELSE \E i \in DOMAIN node.m_children : KillOverflows(node.m_children[i])

\* SubtotalPixelsCount(int colorCount, color_t color) and its getters.
SubtotalPixelsCount(colorCount, color) ==
  [ m_colorCount |-> colorCount, m_color |-> color ]
SubtotalGetColorCount(s) == s.m_colorCount
SubtotalGetColor(s) == s.m_color

RECURSIVE ConcatRange(_, _, _, _)
ConcatRange(Op(_), seq, lo, hi) ==
  IF lo > hi THEN << >>
  ELSE IF lo = hi THEN Op(seq[lo])
  ELSE ConcatRange(Op, seq, lo, (lo + hi) \div 2)
         \o ConcatRange(Op, seq, (lo + hi) \div 2 + 1, hi)

ConcatOver(Op(_), seq, i) == ConcatRange(Op, seq, i, Len(seq))

\* Node::FillSubtotalVector(temp): one SubtotalPixelsCount per non-empty
\* leaf, depth first, children in index order.
RECURSIVE FillSubtotalVector(_)
FillSubtotalVector(node) ==
  IF IsLazy(node)
    THEN (IF PixelCount(node) > 0
            THEN Repeat(<< SubtotalPixelsCount(PixelCount(node),
                                               GetColor(Fields(node))) >>,
                        DeferredLeaves(node))
            ELSE << >>)
    ELSE IF IsLeaf(node)
      THEN (IF node.m_pixel_count > 0
              THEN << SubtotalPixelsCount(node.m_pixel_count, GetColor(node)) >>
              ELSE << >>)
      ELSE ConcatOver(FillSubtotalVector, node.m_children, 1)

---------------------------------------------------------------------------
(* Octree.                                                                 *)

\* std::vector<color_t>(n): n zeroed entries.
VectorOfSize(n) == [ i \in 1 .. n |-> rgba(0, 0, 0, 0) ]

\* OctreeCtor with a palette one entry too large.
OctreeCtor_OversizedPalette(targetQuantity, levelDeep, withAlpha) ==
  IF targetQuantity < 0
    THEN [ constructed |-> FALSE ]
    ELSE [ constructed |-> TRUE,
           m_palette |-> VectorOfSize(targetQuantity + 1),
           m_root |-> NodeCtor(0, TRUE, levelDeep, withAlpha),
           m_levelDeep |-> CLAMP(1, levelDeep, 8) ]

\* OctreeCtor refusing a depth outside 1..8 instead of clamping it.
OctreeCtor_RejectsDepth(targetQuantity, levelDeep, withAlpha) ==
  IF targetQuantity < 0 \/ levelDeep \notin 1 .. 8
    THEN [ constructed |-> FALSE ]
    ELSE [ constructed |-> TRUE,
           m_palette |-> VectorOfSize(targetQuantity),
           m_root |-> NodeCtor(0, TRUE, levelDeep, withAlpha),
           m_levelDeep |-> levelDeep ]

\* Octree::Octree(int targetQuantity, int levelDeep, bool withAlpha).  The
\* members are initialized in declaration order; std::vector's constructor
\* takes a size_t and throws std::length_error for a negative int, before
\* anything else is built.
OctreeCtor(targetQuantity, levelDeep, withAlpha) ==
  IF targetQuantity < 0
    THEN [ constructed |-> FALSE ]
    ELSE [ constructed |-> TRUE,
           m_palette |-> VectorOfSize(targetQuantity),
           m_root |-> NodeCtor(0, TRUE, levelDeep, withAlpha),
           m_levelDeep |-> CLAMP(1, levelDeep, 8) ]

\* Octree::Octree()
OctreeDefaultCtor ==
  [ constructed |-> TRUE,
    m_palette |-> VectorOfSize(256),
    m_root |-> NodeCtor(0, TRUE, 6, FALSE),
    m_levelDeep |-> 6 ]

\* Octree::AddColor(c)
OctreeAddColor(o, c) == [ o EXCEPT !.m_root = NodeAddColor(@, c) ]

\* The loop of Octree::GeneratePalette: KillLastLevel until the non-empty
\* leaves fit the target.  `hung` tells that the loop cannot end: the count
\* is above the target and KillLastLevel has nothing left to collapse;
\* `overflows` tells that an addition of one of the calls left the range of
\* int.
RECURSIVE Prune(_, _, _)
Prune(root, target, n) ==
  IF LeavesCount(root) <= target
    THEN [ root |-> root, calls |-> n, hung |-> FALSE, overflows |-> FALSE ]
    ELSE IF IsLeaf(root)
      THEN [ root |-> root, calls |-> n, hung |-> TRUE, overflows |-> FALSE ]
      ELSE LET rest == Prune(NodeKillLastLevel(root), target, n + 1)
           IN  [ rest EXCEPT !.overflows = @ \/ KillOverflows(root) ]

\* The palette entries GeneratePalette emits: the colour of every non-empty
\* leaf, in traversal order.
LeafColors(root) == MapOver(SubtotalGetColor, FillSubtotalVector(root), 1)

---------------------------------------------------------------------------
(* script/dialog_class.cpp and tools/point_shapes.h: the objects before    *)
(* anything is called on them.                                             *)

\* The reference luaL_ref never returns for a value that is not nil.
LUA_REFNIL == -1

\* No Dialog yet.  showRef and L are as the member initializers leave them.
NoDialog ==
  [ created |-> FALSE, showRef |-> LUA_REFNIL, L |-> "nullptr",
    uservalue |-> << >>, closeSlots |-> << >>, buttons |-> << >>,
    windowOpen |-> FALSE, lastButton |-> 0 ]

\* The lua_State between two calls of the script: an empty stack, no
\* reference taken in the registry (size counts the references handed out
\* so far), no C function running.
NewState ==
  [ stack |-> << >>, live |-> {}, free |-> << >>,
    size |-> 0, frames |-> << >> ]

NoHistory ==
  [ steps |-> 0, refs |-> 0, unrefs |-> 0, badUnref |-> FALSE,
    luaCalls |-> 0,
    lastClose |-> [ shown |-> FALSE, log |-> << >> ],
    lastHandler |-> [ entry |-> 0, exit |-> 0, path |-> "none" ] ]

\* A float, m * 2^e with m < 2^24, kept with m odd (or m = 0 and e = 0).
FloatZero == [ m |-> 0, e |-> 0 ]

\* SprayPointShape: float m_pointRemainder = 0.
NewSprayPointShape ==
  [ pc |-> "idle", spray_width |-> 0, spray_speed |-> 0,
    m_pointRemainder |-> FloatZero, calls |-> 0, painted |-> 0,
    last |-> 0 ]

---------------------------------------------------------------------------
(* The octree as its callers drive it.                                     *)

NoArgs == [ targetQuantity |-> 0, levelDeep |-> 0, withAlpha |-> FALSE ]
NoOctree == [ constructed |-> FALSE ]

FedCount == SumOver(LAMBDA x : x, fed, 1)

Init ==
  /\ pc = "new"
  /\ args = NoArgs
  /\ octree = NoOctree
  /\ fed = [ i \in DOMAIN ColorSeq |-> 0 ]
  /\ kills = 0
  /\ genKills = 0
  /\ palette = << >>
  /\ cps = [ pc |-> "idle" ]
  /\ spritePalette = << >>
  /\ cv = [ pc |-> "idle" ]
  /\ dstImage = << >>
  /\ dlg = NoDialog
  /\ lua = NewState
  /\ tr = NoHistory
  /\ ff = [ pc |-> "idle" ]
  /\ spray = NewSprayPointShape

Construct(targetQuantity, levelDeep, withAlpha) ==
  /\ pc = "new"
  /\ args' = [ targetQuantity |-> targetQuantity, levelDeep |-> levelDeep,
               withAlpha |-> withAlpha ]
  /\ octree' = OctreeCtor(targetQuantity, levelDeep, withAlpha)
  /\ pc' = IF octree'.constructed THEN "ready" ELSE "failed"
  /\ UNCHANGED <<fed, kills, genKills, palette, spriteVars, convertVars,
               scriptVars, toolVars>>

ConstructDefault ==
  /\ pc = "new"
  /\ args' = [ targetQuantity |-> 256, levelDeep |-> 6, withAlpha |-> FALSE ]
  /\ octree' = OctreeDefaultCtor
  /\ pc' = "ready"
  /\ UNCHANGED <<fed, kills, genKills, palette, spriteVars, convertVars,
               scriptVars, toolVars>>

\* What a call that may have added past the range of int leaves behind:
\* the wrapped sums ("overflowed") or a trapped process ("aborted").
AfterArithmetic(overflows) ==
  IF overflows THEN { "overflowed", "aborted" } ELSE { "ready" }

AddColor(i) ==
  /\ pc = "ready"
  /\ FedCount < MaxAdds
  /\ pc' \in AfterArithmetic(AddColorOverflows(octree.m_root, ColorSeq[i], 1))
  /\ octree' = IF pc' = "aborted" THEN octree
               ELSE OctreeAddColor(octree, ColorSeq[i])
  /\ fed' = [ fed EXCEPT ![i] = @ + 1 ]
  /\ UNCHANGED <<args, kills, genKills, palette, spriteVars, convertVars,
               scriptVars, toolVars>>

KillLastLevel ==
  /\ pc = "ready"
  /\ kills < MaxKills
  /\ pc' \in AfterArithmetic(KillOverflows(octree.m_root))
  /\ octree' = IF pc' = "aborted" THEN octree
               ELSE [ octree EXCEPT !.m_root = NodeKillLastLevel(@) ]
  /\ kills' = kills + 1
  /\ UNCHANGED <<args, fed, genKills, palette, spriteVars, convertVars,
               scriptVars, toolVars>>

\* Octree::GeneratePalette, also of a tree whose sums have wrapped.  An
\* addition that leaves the range of int while the tree is pruned wraps or
\* ends the program.
GeneratePalette ==
  /\ pc \in { "ready", "overflowed" }
  /\ \E r \in { Prune(octree.m_root, Len(octree.m_palette), 0) } :
       /\ pc' \in IF r.hung THEN { "hung" }
                  ELSE IF pc = "ready" /\ r.overflows
                    THEN { "generated", "aborted" }
                  ELSE { "generated" }
       /\ octree' = IF pc' = "aborted" THEN octree
                    ELSE [ octree EXCEPT !.m_root = r.root ]
       /\ genKills' = r.calls
       /\ palette' = IF pc' = "generated" THEN LeafColors(r.root)
                     ELSE palette
  /\ UNCHANGED <<args, fed, kills, spriteVars, convertVars,
               scriptVars, toolVars>>

Next ==
  \/ \E t \in Targets, d \in LevelDeeps, a \in BOOLEAN : Construct(t, d, a)
  \/ ConstructDefault
  \/ \E i \in DOMAIN ColorSeq : AddColor(i)
  \/ KillLastLevel
  \/ GeneratePalette

Spec == Init /\ [][Next]_vars

---------------------------------------------------------------------------
(* The octree fed with whole images: Octree::feedWithImage calls AddColor  *)
(* for every pixel of the image (section 4.2).  The images are of one      *)
(* colour and ImagePixels pixels, 2048 x 2048.                             *)

ImagePixels == 4194304
MaxImages == 3

\* The depths the octree is built with before it is fed.
FeedDepths == { 1, 2, 8 }

ImagesFed == FedCount \div ImagePixels

FeedWithImage(i) ==
  /\ pc = "ready"
  /\ ImagesFed < MaxImages
  /\ pc' \in AfterArithmetic(AddColorOverflows(octree.m_root, ColorSeq[i],
                                               ImagePixels))
  /\ octree' = IF pc' = "aborted" THEN octree
               ELSE [ octree EXCEPT
                        !.m_root = NodeAddColorTimes(@, ColorSeq[i],
                                                     ImagePixels) ]
  /\ fed' = [ fed EXCEPT ![i] = @ + ImagePixels ]
  /\ UNCHANGED <<args, kills, genKills, palette, spriteVars, convertVars,
               scriptVars, toolVars>>

NextFeed ==
  \/ \E d \in FeedDepths, a \in BOOLEAN : Construct(MaxTarget, d, a)
  \/ ConstructDefault
  \/ \E i \in DOMAIN ColorSeq : FeedWithImage(i)
  \/ KillLastLevel
  \/ GeneratePalette

SpecFeed == Init /\ [][NextFeed]_vars

---------------------------------------------------------------------------
(* create_palette_from_sprite (modelled from sections 2, 4.2 and 5): every *)
(* frame from fromFrame to toFrame is fed row by row into one Octree, the  *)
(* delegate is polled before every row, and the palette is generated once  *)
(* every row was fed.                                                      *)

MaxFrames == 2

ImageA == << << ColorSeq[1], ColorSeq[1] >>, << ColorSeq[2], ColorSeq[3] >> >>
ImageB == << << ColorSeq[4], ColorSeq[1] >>, << ColorSeq[5], ColorSeq[2] >> >>
Images == { ImageA, ImageB }
Sprites == UNION { [ 1 .. n -> Images ] : n \in 1 .. MaxFrames }

\* What the caller's palette may hold before the call.
OriginalPalettes ==
  { << rgba(0, 0, 0, 255) >>, << ColorSeq[1], ColorSeq[2] >> }

\* Octree::feedWithImage, one row of it: AddColor for every pixel.
RECURSIVE FeedRow(_, _, _)
FeedRow(o, row, x) ==
  IF x > Len(row) THEN o ELSE FeedRow(OctreeAddColor(o, row[x]), row, x + 1)

\* The palette GeneratePalette writes from the colours an octree holds.
GeneratedPalette(o) == LeafColors(Prune(o.m_root, Len(o.m_palette), 0).root)

\* PaletteWhileFeeding writing the colours gathered so far after every row.
PaletteWhileFeeding_Partial(current, quantizer) == GeneratedPalette(quantizer)

\* What the Palette holds while rows are being fed: what it held before.
PaletteWhileFeeding(current, quantizer) == current

CpsCall(sprite, fromFrame, toFrame, original) ==
  /\ cps.pc = "idle"
  /\ cps' = [ pc |-> "feeding", sprite |-> sprite,
              fromFrame |-> fromFrame, toFrame |-> toFrame,
              frame |-> fromFrame, row |-> 1, rowsFed |-> 0,
              quantizer |-> OctreeDefaultCtor,
              original |-> original, outcome |-> "none" ]
  /\ spritePalette' = original
  /\ UNCHANGED <<octreeVars, convertVars, scriptVars, toolVars>>

\* One poll of the delegate and, unless it reports cancellation, one row.
CpsRow(canceled) ==
  /\ cps.pc = "feeding"
  /\ cps.frame <= cps.toFrame
  /\ IF canceled
       THEN /\ cps' = [ cps EXCEPT !.pc = "returned", !.outcome = "canceled" ]
            /\ UNCHANGED spritePalette
       ELSE /\ \E q \in { FeedRow(cps.quantizer,
                                  cps.sprite[cps.frame][cps.row], 1) } :
                 /\ cps' = [ cps EXCEPT
                      !.quantizer = q,
                      !.rowsFed = @ + 1,
                      !.row = IF cps.row < Len(cps.sprite[cps.frame])
                                THEN cps.row + 1 ELSE 1,
                      !.frame = IF cps.row < Len(cps.sprite[cps.frame])
                                  THEN cps.frame ELSE cps.frame + 1 ]
                 /\ spritePalette' = PaletteWhileFeeding(spritePalette, q)
  /\ UNCHANGED <<octreeVars, convertVars, scriptVars, toolVars>>

\* Every row of every frame was fed: generate the palette and return it.
CpsFinish ==
  /\ cps.pc = "feeding"
  /\ cps.frame > cps.toFrame
  /\ cps' = [ cps EXCEPT !.pc = "returned", !.outcome = "completed" ]
  /\ spritePalette' = GeneratedPalette(cps.quantizer)
  /\ UNCHANGED <<octreeVars, convertVars, scriptVars, toolVars>>

NextSprite ==
  \/ \E sprite \in Sprites, original \in OriginalPalettes :
       \E fromFrame \in 1 .. Len(sprite) :
         \E toFrame \in fromFrame .. Len(sprite) :
           CpsCall(sprite, fromFrame, toFrame, original)
  \/ \E canceled \in BOOLEAN : CpsRow(canceled)
  \/ CpsFinish

SpecSprite == Init /\ [][NextSprite]_vars

---------------------------------------------------------------------------
(* convert_pixel_format (modelled from section 4.4), RGB to Indexed without *)
(* dithering: row by row, every pixel goes through the RGB map to the      *)
(* nearest palette entry; the delegate, when there is one, is polled       *)
(* between rows.                                                           *)

MaxHeight == 3

SourceRows ==
  { << ColorSeq[1], ColorSeq[2] >>, << ColorSeq[3], ColorSeq[4] >> }
SourceImages == UNION { [ 1 .. h -> SourceRows ] : h \in 1 .. MaxHeight }

\* The palette the image is converted to.
IndexedPalette == << ColorSeq[2], ColorSeq[1], ColorSeq[3] >>

\* What every pixel of the destination may hold before the call.
DstFills == { 0, 3 }

Square(x) == x * x
Distance(c, d) ==
  Square(rgba_getr(c) - rgba_getr(d)) + Square(rgba_getg(c) - rgba_getg(d))
  + Square(rgba_getb(c) - rgba_getb(d))

\* RgbMap: the index of the palette entry nearest to c, the first of them
\* when several are as near.
MapRgb(c, pal) ==
  (CHOOSE i \in DOMAIN pal :
     /\ \A j \in DOMAIN pal : Distance(c, pal[i]) <= Distance(c, pal[j])
     /\ \A j \in 1 .. i - 1 : Distance(c, pal[j]) > Distance(c, pal[i])) - 1

ConvertRowPixels(row, pal) == [ x \in DOMAIN row |-> MapRgb(row[x], pal) ]

\* StopsOnCancel never looking at the answer.
StopsOnCancel_Never(haveDelegate, canceled) == FALSE

\* Whether the converter stops at a poll.
StopsOnCancel(haveDelegate, canceled) == haveDelegate /\ canceled

\* The Image* the function returns: the destination, converted as far as it
\* got.
ConvertReturn(dst, canceled) == dst

ConvertCall(src, dst, fill, haveDelegate) ==
  /\ cv.pc = "idle"
  /\ cv' = [ pc |-> "converting", src |-> src, dst |-> dst,
             delegate |-> haveDelegate, y |-> 0, sawCancel |-> -1,
             original |-> [ y \in DOMAIN src |->
                              [ x \in DOMAIN src[y] |-> fill ] ],
             ret |-> "none" ]
  /\ dstImage' = [ y \in DOMAIN src |-> [ x \in DOMAIN src[y] |-> fill ] ]
  /\ UNCHANGED <<octreeVars, spriteVars, scriptVars, toolVars>>

\* One row: between rows the delegate is polled first.
ConvertRow(canceled) ==
  /\ cv.pc = "converting"
  /\ LET polled == cv.y > 0
         said == polled /\ cv.delegate /\ canceled
         saw == IF said /\ cv.sawCancel = -1 THEN cv.y ELSE cv.sawCancel
     IN  IF polled /\ StopsOnCancel(cv.delegate, canceled)
           THEN /\ cv' = [ cv EXCEPT !.pc = "returned", !.sawCancel = saw,
                                     !.ret = ConvertReturn(cv.dst, TRUE) ]
                /\ UNCHANGED dstImage
           ELSE /\ dstImage' = [ dstImage EXCEPT
                     ![cv.y + 1] = ConvertRowPixels(cv.src[cv.y + 1],
                                                    IndexedPalette) ]
                /\ cv' = [ cv EXCEPT
                     !.y = @ + 1,
                     !.sawCancel = saw,
                     !.pc = IF cv.y + 1 = Len(cv.src)
                              THEN "returned" ELSE "converting",
                     !.ret = IF cv.y + 1 = Len(cv.src)
                               THEN ConvertReturn(cv.dst, FALSE) ELSE "none" ]
  /\ UNCHANGED <<octreeVars, spriteVars, scriptVars, toolVars>>

NextConvert ==
  \/ \E src \in SourceImages, dst \in { "dst", "created" },
        fill \in DstFills, haveDelegate \in BOOLEAN :
       ConvertCall(src, dst, fill, haveDelegate)
  \/ \E canceled \in BOOLEAN : ConvertRow(canceled)

SpecConvert == Init /\ [][NextConvert]_vars

---------------------------------------------------------------------------
(* script/dialog_class.cpp: one Dialog of a script, its window's Close     *)
(* signal, its buttons' Click signals and the lua_State it lives in.  The  *)
(* Dialog, the lua_State and the history travel together as one record     *)
(* [dlg, lua, tr] through what a call does.  A Lua function given to the   *)
(* dialog returns or raises an error; it does not call back into the       *)
(* dialog.                                                                 *)

MaxDialogSteps == 5
MaxButtons == 1

\* How a handler's call of the Lua function ends: it returns, or it raises
\* an error that lua_pcall catches.  The callbacks that fill the event table
\* throw nothing.
Outcomes == { "returns", "error" }

\* lua_pop(L, n)
Pop(stack, n) == SubSeq(stack, 1, Len(stack) - n)

\* luaL_ref(L, LUA_REGISTRYINDEX): pops the value on top of the stack and
\* stores it under a reference that is not in use, a freed one first.
luaL_ref(l) ==
  LET ref == IF Len(l.free) > 0 THEN Head(l.free) ELSE l.size + 1
  IN  [ l EXCEPT !.stack = Pop(@, 1),
                 !.live = @ \cup { ref },
                 !.free = IF Len(@) > 0 THEN Tail(@) ELSE @,
                 !.size = IF Len(l.free) > 0 THEN @ ELSE @ + 1 ]

\* The reference luaL_ref has just returned.
LastRef(before, after) == CHOOSE ref \in after.live : ref \notin before.live

\* luaL_unref(L, LUA_REGISTRYINDEX, ref): frees the reference.
luaL_unref(l, ref) ==
  IF ref < 0 THEN l
  ELSE [ l EXCEPT !.live = @ \ { ref }, !.free = << ref >> \o @ ]

\* Dialog::refShow taking a reference on every call.
refShow_Unguarded(S) ==
  LET pushed == [ S.lua EXCEPT !.stack = Append(@, "userdata") ]
      after == luaL_ref(pushed)
  IN  [ S EXCEPT !.dlg.L = "L",
                 !.dlg.showRef = LastRef(S.lua, after),
                 !.lua = after,
                 !.tr.refs = @ + 1 ]

\* Dialog::refShow(L)
refShow(S) ==
  IF S.dlg.showRef = LUA_REFNIL
    THEN LET pushed == [ S.lua EXCEPT !.stack = Append(@, "userdata") ]
             after == luaL_ref(pushed)
         IN  [ S EXCEPT !.dlg.L = "L",
                        !.dlg.showRef = LastRef(S.lua, after),
                        !.lua = after,
                        !.tr.refs = @ + 1 ]
    ELSE S

\* Dialog::unrefShow()
unrefShow(S) ==
  IF S.dlg.showRef # LUA_REFNIL
    THEN [ S EXCEPT !.lua = luaL_unref(@, S.dlg.showRef),
                    !.tr.unrefs = @ + 1,
                    !.tr.badUnref = @ \/ S.dlg.showRef \notin S.lua.live,
                    !.dlg.showRef = LUA_REFNIL,
                    !.dlg.L = "nullptr" ]
    ELSE S

\* The lambda Dialog_connect_signal connects, for the function stored as
\* entry n of the dialog's uservalue.
SignalHandler(S, n, outcome) ==
  LET entry == Len(S.lua.stack)
  IN
  IF S.dlg.showRef = LUA_REFNIL
    THEN [ S EXCEPT !.tr.lastHandler =
                      [ entry |-> entry, exit |-> entry, path |-> "hidden" ] ]
    ELSE
      LET \* lua_rawgeti, lua_getuservalue, lua_rawgeti, lua_newtable
          pushed == S.lua.stack
                      \o << "userdata", "uservalue", S.dlg.uservalue[n],
                            "table" >>
          isFunction == pushed[Len(pushed) - 1] = "function"
          \* lua_pcall(L, 1, 0, 0): the function and its argument go, an
          \* error message comes when the function raised one.
          called == IF outcome = "error"
                      THEN Append(Pop(pushed, 2), "message")
                      ELSE Pop(pushed, 2)
          final == IF isFunction THEN Pop(called, 2)
                   ELSE Pop(Pop(pushed, 1), 2)
          path == IF ~isFunction THEN "not a function"
                  ELSE IF outcome = "error" THEN "pcall failed"
                  ELSE "pcall succeeded"
      IN  [ S EXCEPT
              !.lua.stack = final,
              !.tr.luaCalls = IF isFunction THEN @ + 1 ELSE @,
              !.tr.lastHandler =
                 [ entry |-> entry, exit |-> Len(final), path |-> path ] ]

\* Dialog_connect_signal(L, dlgIdx, signal, callback), the part before
\* signal.connect: the function is stored as entry n = 1 + #uservalue.
StoreCallback(d) == [ d EXCEPT !.uservalue = Append(@, "function") ]

\* Dialog_new connecting the handler that releases showRef first.
DialogNewSlots_UnrefFirst(withOnclose) ==
  IF withOnclose
    THEN << [ kind |-> "unrefShow", n |-> 0 ], [ kind |-> "handler", n |-> 1 ] >>
    ELSE << [ kind |-> "unrefShow", n |-> 0 ] >>

\* Dialog_new: what it connects to window.Close, in this order: the onclose
\* function when the table holds one, then unrefShowOnClose().
DialogNewSlots(withOnclose) ==
  IF withOnclose
    THEN << [ kind |-> "handler", n |-> 1 ], [ kind |-> "unrefShow", n |-> 0 ] >>
    ELSE << [ kind |-> "unrefShow", n |-> 0 ] >>

\* One slot of window.Close called.
CallSlot(S, slot, outcome) ==
  IF slot.kind = "unrefShow"
    THEN [ unrefShow(S) EXCEPT !.tr.lastClose.log = Append(@, "unrefShow") ]
    ELSE LET after == SignalHandler(S, slot.n, outcome)
         IN  [ after EXCEPT !.tr.lastClose.log =
                 Append(@, IF after.tr.luaCalls > S.tr.luaCalls
                             THEN "onclose" ELSE "skipped") ]

\* window.Close(ev): the slots are called in the order they were connected.
RECURSIVE CallSlots(_, _, _, _)
CallSlots(S, slots, i, outcome) ==
  IF i > Len(slots) THEN S
  ELSE CallSlots(CallSlot(S, slots[i], outcome), slots, i + 1, outcome)

\* ui::Window::closeWindow: the window goes, the Close signal is sent, and
\* every Dialog_show that waits for the window returns; its C frame goes
\* with what the handlers left in it.
CloseWindow(S, outcome) ==
  LET start == [ S EXCEPT
                   !.dlg.windowOpen = FALSE,
                   !.tr.lastClose =
                      [ shown |-> S.dlg.windowOpen, log |-> << >> ] ]
      sent == CallSlots(start, S.dlg.closeSlots, 1, outcome)
  IN  IF Len(sent.lua.frames) > 0
        THEN [ sent EXCEPT
                 !.lua.stack = SubSeq(@, 1, sent.lua.frames[1]),
                 !.lua.frames = << >> ]
        ELSE sent

Script == [ dlg |-> dlg, lua |-> lua, tr |-> tr ]

\* One more step of the script or of the user.
Stepped(S) ==
  /\ dlg' = S.dlg
  /\ lua' = S.lua
  /\ tr' = [ S.tr EXCEPT !.steps = @ + 1 ]
  /\ UNCHANGED <<octreeVars, spriteVars, convertVars, toolVars>>

\* Dialog_new(L), called with a table that holds an onclose function or
\* does not.
Dialog_new(withOnclose) ==
  /\ ~dlg.created
  /\ Stepped([ Script EXCEPT
       !.dlg = [ (IF withOnclose THEN StoreCallback(NoDialog) ELSE NoDialog)
                 EXCEPT !.created = TRUE,
                        !.closeSlots = DialogNewSlots(withOnclose) ] ])

\* Dialog_button(L), with an onclick function or without.
Dialog_button(withOnclick) ==
  /\ dlg.created
  /\ Len(lua.frames) = 0
  /\ Len(dlg.buttons) < MaxButtons
  /\ tr.steps < MaxDialogSteps
  /\ Stepped([ Script EXCEPT
       !.dlg = IF withOnclick
                 THEN [ StoreCallback(dlg) EXCEPT
                          !.buttons = Append(@, Len(dlg.uservalue) + 1) ]
                 ELSE [ dlg EXCEPT !.buttons = Append(@, 0) ] ])

\* Dialog_show(L): refShow, then the window opens; with wait the call
\* returns when the window is closed, and until then its frame, which holds
\* the dialog as argument 1, is where the handlers run.
Dialog_show(wait) ==
  /\ dlg.created
  /\ Len(lua.frames) = 0
  /\ tr.steps < MaxDialogSteps
  /\ LET S == refShow(Script)
     IN  Stepped([ S EXCEPT
           !.dlg.windowOpen = TRUE,
           !.lua.frames = IF wait THEN Append(@, Len(S.lua.stack)) ELSE @,
           !.lua.stack = IF wait THEN Append(@, "userdata") ELSE @ ])

\* Dialog_close(L), called by the script while no Dialog_show waits.
Dialog_close(outcome) ==
  /\ dlg.created
  /\ Len(lua.frames) = 0
  /\ tr.steps < MaxDialogSteps
  /\ Stepped(CloseWindow(Script, outcome))

\* The user closes the window.
WindowClose(outcome) ==
  /\ dlg.windowOpen
  /\ tr.steps < MaxDialogSteps
  /\ Stepped(CloseWindow(Script, outcome))

\* The user clicks button b: its onclick function is called through the
\* handler, or, when it has none, the button closes the window.
Click(b, outcome) ==
  /\ dlg.windowOpen
  /\ b \in DOMAIN dlg.buttons
  /\ tr.steps < MaxDialogSteps
  /\ Stepped(IF dlg.buttons[b] # 0
               THEN [ SignalHandler(Script, dlg.buttons[b], outcome)
                        EXCEPT !.dlg.lastButton = b ]
               ELSE CloseWindow(Script, outcome))

NextDialog ==
  \/ \E withOnclose \in BOOLEAN : Dialog_new(withOnclose)
  \/ \E withOnclick \in BOOLEAN : Dialog_button(withOnclick)
  \/ \E wait \in BOOLEAN : Dialog_show(wait)
  \/ \E outcome \in Outcomes : Dialog_close(outcome)
  \/ \E outcome \in Outcomes : WindowClose(outcome)
  \/ \E b \in 1 .. MaxButtons, outcome \in Outcomes : Click(b, outcome)

SpecDialog == Init /\ [][NextDialog]_vars

---------------------------------------------------------------------------
(* FloodFillPointShape::floodfillBounds.                                   *)

\* The sprites are MaxSprite x MaxSprite at most, the grid origins lie in
\* -MaxOrigin .. MaxOrigin, the tiles are MaxTile wide and high at most and
\* the points lie in -MaxPoint .. MaxPoint.
MaxSprite == 4
MaxOrigin == 2
MaxTile == 3
MaxPoint == 4

\* gfx::Rect
Rect(x, y, w, h) == [ x |-> x, y |-> y, w |-> w, h |-> h ]

\* gfx::Rect::isEmpty()
isEmpty(rc) == rc.w <= 0 \/ rc.h <= 0

Max(a, b) == IF a > b THEN a ELSE b
Min(a, b) == IF a < b THEN a ELSE b

\* gfx::Rect::createIntersection(rc), which operator&= stores: the common
\* part, and the rectangle of all zeros when there is none.
createIntersection(a, b) ==
  LET x1 == Max(a.x, b.x)
      y1 == Max(a.y, b.y)
      x2 == Min(a.x + a.w, b.x + b.w)
      y2 == Min(a.y + a.h, b.y + b.h)
  IN  IF ~isEmpty(a) /\ ~isEmpty(b) /\ x1 < x2 /\ y1 < y2
        THEN Rect(x1, y1, x2 - x1, y2 - y1)
        ELSE Rect(0, 0, 0, 0)

\* div(numer, denom) of <cstdlib> for denom > 0: the quotient is truncated
\* toward zero and the remainder has the sign of numer.
div(numer, denom) ==
  LET quot == IF numer >= 0 THEN numer \div denom
              ELSE -((-numer) \div denom)
  IN  [ quot |-> quot, rem |-> numer - quot * denom ]

\* The origin of the tile the code computes along one axis.
TileOrigin(gridOrigin, size, x) ==
  LET d0 == div(gridOrigin, size)
      rem == IF d0.rem > 0 THEN d0.rem - size ELSE d0.rem
      d == div(x - rem, size)
  IN  rem + d.quot * size

\* floodfillBounds(loop, x, y), the loop giving the sprite's bounds, the
\* source image's bounds, getStopAtGrid() and getGridBounds().
floodfillBounds(loop, x, y) ==
  LET bounds == createIntersection(loop.sprite, loop.srcImage)
      grid == loop.grid
  IN  IF loop.stopAtGrid /\ ~isEmpty(grid)
        THEN createIntersection(bounds,
               Rect(TileOrigin(grid.x, grid.w, x),
                    TileOrigin(grid.y, grid.h, y), grid.w, grid.h))
        ELSE bounds

\* The loops and points floodfillBounds is called with.
Loops ==
  { [ sprite |-> Rect(0, 0, sw, MaxSprite),
      srcImage |-> Rect(0, 0, MaxSprite, MaxSprite),
      stopAtGrid |-> stop,
      grid |-> Rect(gx, gy, gw, gh) ] :
      sw \in { MaxSprite - 1, MaxSprite }, stop \in BOOLEAN,
      gx \in -MaxOrigin .. MaxOrigin, gy \in { -1, 0, MaxOrigin },
      gw \in { 0, 2, MaxTile }, gh \in { 2, MaxTile } }

Points == { << x, y >> : x \in -MaxPoint .. MaxPoint, y \in { -MaxPoint, -1, 0, 1 } }

InitFloodFill ==
  /\ pc = "new"
  /\ args = NoArgs
  /\ octree = NoOctree
  /\ fed = [ i \in DOMAIN ColorSeq |-> 0 ]
  /\ kills = 0
  /\ genKills = 0
  /\ palette = << >>
  /\ cps = [ pc |-> "idle" ]
  /\ spritePalette = << >>
  /\ cv = [ pc |-> "idle" ]
  /\ dstImage = << >>
  /\ dlg = NoDialog
  /\ lua = NewState
  /\ tr = NoHistory
  /\ \E loop \in Loops, pt \in Points :
       ff = [ pc |-> "called", loop |-> loop, x |-> pt[1], y |-> pt[2],
              area |-> Rect(0, 0, 0, 0) ]
  /\ spray = NewSprayPointShape

\* getModifiedArea(loop, x, y, area)
getModifiedArea ==
  /\ ff.pc = "called"
  /\ ff' = [ ff EXCEPT !.pc = "returned",
                       !.area = floodfillBounds(ff.loop, ff.x, ff.y) ]
  /\ UNCHANGED <<octreeVars, spriteVars, convertVars, scriptVars, spray>>

NextFloodFill == getModifiedArea

SpecFloodFill == InitFloodFill /\ [][NextFloodFill]_vars

---------------------------------------------------------------------------
(* SprayPointShape::transformPoint.  A float is m * 2^e with 0 <= m < 2^24, *)
(* kept with m odd, or m = 0 and e = 0; every operation rounds its exact    *)
(* result to 24 bits, to nearest and ties to even.  The values here are     *)
(* never negative, and far from the least and the greatest float.           *)

\* The calls of transformPoint in one stroke.
MaxSprayCalls == 25

\* The widths and speeds the loop returns.
SprayWidths == { 4, 5, 6, 10 }
SpraySpeeds == { 1, 2, 10, 16 }

\* FLT_MANT_DIG
MantissaBits == 24

Pow2(n) == 2 ^ n

\* The float of m * 2^e, for m < 2^24.
RECURSIVE Float(_, _)
Float(m, e) ==
  IF m = 0 THEN FloatZero
  ELSE IF m % 2 = 0 THEN Float(m \div 2, e + 1)
  ELSE [ m |-> m, e |-> e ]

\* The number of bits to drop from s to bring it below 2^24.
RECURSIVE ExtraBits(_)
ExtraBits(s) == IF s < Pow2(MantissaBits) THEN 0 ELSE 1 + ExtraBits(s \div 2)

\* s * 2^e rounded to a float.
Round(s, e) ==
  LET u == ExtraBits(s)
      q == s \div Pow2(u)
      r == s % Pow2(u)
      up == 2 * r > Pow2(u) \/ (2 * r = Pow2(u) /\ q % 2 = 1)
  IN  Float(IF up THEN q + 1 ELSE q, e + u)

\* (float)n of an int n that needs no rounding.
FromInt(n) == Float(n, 0)

\* a / 4.0f
DivideBy4(a) == IF a.m = 0 THEN a ELSE [ a EXCEPT !.e = @ - 2 ]

\* a * n for an int n; the product needs no rounding here.
TimesInt(a, n) == Float(a.m * n, a.e)

\* The number of times m is doubled to reach 25 * 2^23.
RECURSIVE Doublings(_)
Doublings(m) == IF m >= 25 * Pow2(MantissaBits - 1) THEN 0
                ELSE 1 + Doublings(2 * m)

\* a / 100.0f: m / 25 is taken to 24 bits and rounded; no tie arises, 25
\* being odd.
DivideBy100(a) ==
  IF a.m = 0 THEN a
  ELSE LET t == Doublings(a.m)
           n == a.m * Pow2(t)
           q == n \div 25
           r == n % 25
       IN  Float(IF 2 * r > 25 THEN q + 1 ELSE q, a.e - 2 - t)

\* a + b
Plus(a, b) ==
  LET e == IF a.e < b.e THEN a.e ELSE b.e
  IN  IF a.m = 0 THEN b
      ELSE IF b.m = 0 THEN a
      ELSE Round(a.m * Pow2(a.e - e) + b.m * Pow2(b.e - e), e)

\* (int)a
ToInt(a) == IF a.e >= 0 THEN a.m * Pow2(a.e) ELSE a.m \div Pow2(-a.e)

\* points_to_spray - integral_points kept whole, the integral part not
\* taken off.
Leftover_Whole(points_to_spray, integral_points) == points_to_spray

\* points_to_spray - integral_points: what is left of a float after its
\* whole part is a float.
Leftover(points_to_spray, integral_points) ==
  IF points_to_spray.e >= 0 THEN FloatZero
  ELSE Float(points_to_spray.m - integral_points * Pow2(-points_to_spray.e),
             points_to_spray.e)

\* (spray_width * spray_width / 4.0f) * spray_speed / 100.0f
PointsPerCall(spray_width, spray_speed) ==
  DivideBy100(TimesInt(DivideBy4(FromInt(spray_width * spray_width)),
                       spray_speed))

\* The tool loop starts a stroke with a width and a speed.
StartSpray(w, s) ==
  /\ spray.pc = "idle"
  /\ spray' = [ spray EXCEPT !.pc = "spraying", !.spray_width = w,
                             !.spray_speed = s ]
  /\ UNCHANGED <<octreeVars, spriteVars, convertVars, scriptVars, ff>>

\* SprayPointShape::transformPoint(loop, x, y): the sub-points painted are
\* counted, where they fall is left out.
transformPoint ==
  /\ spray.pc = "spraying"
  /\ spray.calls < MaxSprayCalls
  /\ LET points_to_spray ==
           Plus(PointsPerCall(spray.spray_width, spray.spray_speed),
                spray.m_pointRemainder)
         integral_points == ToInt(points_to_spray)
     IN  spray' = [ spray EXCEPT
                      !.m_pointRemainder =
                         Leftover(points_to_spray, integral_points),
                      !.calls = @ + 1,
                      !.painted = @ + integral_points,
                      !.last = integral_points ]
  /\ UNCHANGED <<octreeVars, spriteVars, convertVars, scriptVars, ff>>

NextSpray ==
  \/ \E w \in SprayWidths, s \in SpraySpeeds : StartSpray(w, s)
  \/ transformPoint

SpecSpray == Init /\ [][NextSpray]_vars

---------------------------------------------------------------------------
(* What the claims speak of.                                               *)

Constructed == pc \in { "ready", "generated", "hung" }

\* The claims' configurations: a target of at least one colour and a depth
\* in 1..8.
InRange == args.targetQuantity >= 1 /\ args.levelDeep \in 1 .. 8

FedColors == { i \in DOMAIN ColorSeq : fed[i] > 0 }

\* The cell of colour space that colour c falls in at tree level `level`:
\* the top `level` bits of every channel the tree partitions on.
CellOf(c, level, withAlpha) ==
  LET w == 2 ^ (8 - MIN(level, 8))
  IN  << rgba_getr(c) \div w, rgba_getg(c) \div w, rgba_getb(c) \div w,
         IF withAlpha THEN rgba_geta(c) \div w ELSE 0 >>

\* The level the leaves are at: the last level built, less one per call of
\* KillLastLevel.
LeafLevel == MAX(0, MAX(1, args.levelDeep) - 1 - kills)

PopulatedCells(level) ==
  { CellOf(ColorSeq[i], level, args.withAlpha) : i \in FedColors }

\* The octree the same colours give when they are fed colour by colour in
\* the order of ColorSeq, and the calls of KillLastLevel come last.
RECURSIVE FeedTimes(_, _, _)
FeedTimes(root, c, n) ==
  IF n = 0 THEN root ELSE FeedTimes(NodeAddColor(root, c), c, n - 1)

RECURSIVE FeedInOrder(_, _, _)
FeedInOrder(root, counts, i) ==
  IF i > Len(counts) THEN root
  ELSE FeedInOrder(FeedTimes(root, ColorSeq[i], counts[i]), counts, i + 1)

RECURSIVE KillTimes(_, _)
KillTimes(root, n) ==
  IF n = 0 THEN root ELSE KillTimes(NodeKillLastLevel(root), n - 1)

PaletteInOrder ==
  LeafColors(
    Prune(KillTimes(FeedInOrder(
                      OctreeCtor(args.targetQuantity, args.levelDeep,
                                 args.withAlpha).m_root,
                      fed, 1),
                    kills),
          Len(octree.m_palette), 0).root)

\* C1: with a target size N >= 1 and a depth in 1..8, GeneratePalette's
\* loop ends after any sequence of AddColor calls, and the palette it emits
\* has at most N entries.
C1_PaletteWithinTarget ==
  InRange =>
    /\ pc # "hung"
    /\ pc = "generated" => Len(palette) <= args.targetQuantity

\* GeneratePalette had to collapse levels and filled the palette exactly.
C1_Witness ==
  /\ pc = "generated" /\ InRange
  /\ genKills > 0
  /\ args.targetQuantity = 2 /\ Len(palette) = 2

\* C2: the palette GeneratePalette emits depends on the colours fed and how
\* often each was fed, not on the order of the AddColor calls: it is the
\* palette of the same colours fed in one fixed order.
C2_OrderIndependent ==
  pc = "generated" => palette = PaletteInOrder

\* Two different colours were fed and share a palette entry.
C2_Witness ==
  /\ pc = "generated" /\ InRange
  /\ Cardinality(FedColors) >= 3
  /\ FedCount >= 4
  /\ Len(palette) = 2

\* C3: one colour C fed k >= 1 times (target >= 1, depth in 1..8) gives the
\* one-entry palette << C >>.
C3_SingleColor ==
  \A i \in DOMAIN ColorSeq :
    (pc = "generated" /\ InRange /\ FedColors = { i }) =>
      palette = << ColorSeq[i] >>

\* A call of m_root.KillLastLevel().
KillCall == pc = "ready" /\ kills' = kills + 1

Scenario ==
  /\ pc = "generated"
  /\ args.targetQuantity = 2 /\ args.levelDeep = 6
  /\ fed = << 2, 1, 1, 0, 0 >>
  /\ kills = 0

LeafFlagged(n) ==
  /\ (Len(n.m_children) = 0) <=> ~n.m_haveChildren
  /\ n.m_haveChildren =>
       /\ n.m_pixel_count = 0
       /\ n.m_R_AcumChannel = 0 /\ n.m_G_AcumChannel = 0
       /\ n.m_B_AcumChannel = 0 /\ n.m_A_AcumChannel = 0

\* LeafFlagged of every node of the tree under `node`.
RECURSIVE EveryNodeLeafFlagged(_)
EveryBuiltLeafFlagged(n) ==
  /\ LeafFlagged(n)
  /\ \A child \in { n.m_children[i] : i \in DOMAIN n.m_children } :
       EveryNodeLeafFlagged(child)
EveryNodeLeafFlagged(node) == EveryBuiltLeafFlagged(Built(node))

\* C6: after construction and any AddColor and KillLastLevel calls, a node
\* is a leaf iff m_haveChildren is false, and only leaves hold statistics.
C6_OnlyLeavesAccumulate ==
  (pc = "ready" /\ InRange) => EveryNodeLeafFlagged(octree.m_root)

\* The number of levels of the tree under `node`.
RECURSIVE TreeDepth(_)
MaxOf(S) == IF S = {} THEN 0 ELSE CHOOSE x \in S : \A y \in S : y <= x
BuiltDepth(n) ==
  1 + MaxOf({ TreeDepth(child) :
                child \in { n.m_children[i] : i \in DOMAIN n.m_children } })
TreeDepth(node) == BuiltDepth(Built(node))

\* C7: for every levelDeep, the tree the constructor builds has no node at a
\* level >= the clamped depth, and as many levels as m_levelDeep says.
C7_DepthClamped ==
  (pc = "ready" /\ kills = 0) =>
    /\ TreeDepth(octree.m_root) <= CLAMP(1, args.levelDeep, 8)
    /\ TreeDepth(octree.m_root) = octree.m_levelDeep

Misconfigured == args.levelDeep \notin 1 .. 8 \/ args.targetQuantity <= 0

\* C8, as claimed: a depth outside 1..8 or a target size <= 0 is rejected
\* by the constructor and no octree comes of it.
C8_Rejected ==
  (pc # "new" /\ Misconfigured) => pc = "failed"

\* C8, amended: the constructor checks neither argument.  A depth outside
\* 1..8 is clamped into m_levelDeep, a target of 0 gives an empty m_palette,
\* and the octree is there to use; construction fails only for a negative
\* target, in std::vector.  With a target of 0, GeneratePalette's loop
\* cannot end once a colour was added.
C8_ClampedNotRejected ==
  pc # "new" =>
    /\ pc = "failed" <=> args.targetQuantity < 0
    /\ Constructed =>
         /\ octree.m_levelDeep = CLAMP(1, args.levelDeep, 8)
         /\ octree.m_levelDeep \in 1 .. 8
         /\ Len(octree.m_palette) = args.targetQuantity
    /\ pc = "hung" => (args.targetQuantity = 0 /\ FedCount > 0)

\* An octree built with a depth outside 1..8 took colours and generated a
\* palette.
C8_Witness ==
  /\ pc = "generated"
  /\ args.levelDeep \notin 1 .. 8
  /\ FedCount > 0 /\ Len(palette) > 0

\* An addition left the range of int.
Overflowed == pc \in { "overflowed", "aborted" }

\* C11: no sequence of AddColor calls and KillLastLevel merges takes
\* m_pixel_count or one of the four sums out of the range of int.
C11_NoOverflow == ~Overflowed

\* One statistic of a node: 1 is m_pixel_count, 2..5 are the sums of R, G,
\* B and A.
StatOf(n, f) ==
  CASE f = 1 -> n.m_pixel_count
    [] f = 2 -> n.m_R_AcumChannel
    [] f = 3 -> n.m_G_AcumChannel
    [] f = 4 -> n.m_B_AcumChannel
    [] f = 5 -> n.m_A_AcumChannel

\* The statistic summed, as ints are, over the leaves under a node.
RECURSIVE LeavesTotal(_, _)
LeavesTotal(node, f) ==
  IF IsLazy(node) THEN 0
  ELSE IF IsLeaf(node) THEN StatOf(node, f)
  ELSE SumOver(LAMBDA child : LeavesTotal(child, f), node.m_children, 1)

\* What was added: 1 per call for f = 1, the channel value for 2..5.
AddedPerCall(i, f) == IF f = 1 THEN 1 ELSE ColorSeq[i][f - 1]

\* The sum over the calls of what was added, in two 16-bit limbs: the calls
\* of every colour split in a multiple of 65536 and a remainder.
AddedHigh(f) ==
  SumOver(LAMBDA i : (fed[i] \div 65536) * AddedPerCall(i, f),
          [ i \in DOMAIN fed |-> i ], 1)
AddedLow(f) ==
  SumOver(LAMBDA i : (fed[i] % 65536) * AddedPerCall(i, f),
          [ i \in DOMAIN fed |-> i ], 1)

\* total = AddedHigh(f) * 65536 + AddedLow(f)
EqualsAdded(total, f) ==
  /\ total >= 0
  /\ total \div 65536 = AddedHigh(f) + AddedLow(f) \div 65536
  /\ total % 65536 = AddedLow(f) % 65536

\* C12: after any AddColor and KillLastLevel calls, the leaves' pixel counts
\* add up to the number of AddColor calls and the leaves' sums of every
\* channel add up to the sum of that channel over the colours added.
C12_StatisticsConserved ==
  pc \in { "ready", "overflowed" } =>
    \A f \in 1 .. 5 : EqualsAdded(LeavesTotal(octree.m_root, f), f)

\* The shape of the tree under a node, in a tree of levelDeep levels: full
\* fan-out and the internal flag above the last level, no child and the leaf
\* flag at the last level.
RECURSIVE FullShape(_, _)
FullShapeBuilt(n, levelDeep) ==
  /\ n.m_haveChildren <=> Len(n.m_children) > 0
  /\ IF n.m_nodeLevel < levelDeep - 1
       THEN /\ n.m_haveChildren
            /\ Len(n.m_children) = IF n.m_withAlpha THEN 16 ELSE 8
            /\ \A child \in { n.m_children[i] : i \in DOMAIN n.m_children } :
                 FullShape(child, levelDeep)
       ELSE /\ ~n.m_haveChildren
            /\ Len(n.m_children) = 0
FullShape(node, levelDeep) == FullShapeBuilt(Built(node), levelDeep)

\* The octree as its constructor left it.
JustConstructed == pc = "ready" /\ FedCount = 0 /\ kills = 0

\* C13: right after Node(0, true, levelDeep, withAlpha) with levelDeep in
\* 1..8 the tree has its full shape, and m_haveChildren is true exactly of
\* the nodes that have children, the root of a one-level tree included.
C13_FullShapeAndFlags ==
  (JustConstructed /\ args.levelDeep \in 1 .. 8) =>
    FullShape(octree.m_root, args.levelDeep)

\* The dialog is referenced from the registry.
Referenced == dlg.showRef # LUA_REFNIL

\* C14: showRef differs from LUA_REFNIL exactly while the dialog is shown
\* and not yet closed; a show of a referenced dialog takes no second
\* reference; every reference refShow took is released by one luaL_unref,
\* and after a close showRef is LUA_REFNIL and L is nullptr.
C14_ShowRefLifecycle ==
  /\ Referenced <=> dlg.windowOpen
  /\ lua.live = IF Referenced THEN { dlg.showRef } ELSE {}
  /\ tr.refs = tr.unrefs + (IF Referenced THEN 1 ELSE 0)
  /\ ~tr.badUnref
  /\ ~Referenced => dlg.L = "nullptr"
  /\ Referenced => dlg.L = "L"

\* The dialog was shown, closed, and shown twice more without a close.
C14_Witness ==
  /\ Referenced /\ dlg.windowOpen
  /\ tr.refs = 2 /\ tr.unrefs = 1
  /\ tr.steps = 5

\* C15: when a shown dialog that was given an onclose function is closed,
\* the function is called once, while showRef is still set, and the
\* reference is released after it.
C15_OncloseBeforeUnref ==
  (tr.lastClose.shown /\ Len(dlg.closeSlots) = 2) =>
    tr.lastClose.log = << "onclose", "unrefShow" >>

\* A shown dialog with an onclose function was closed, the function raised
\* an error, and the reference is gone.
C15_Witness ==
  /\ tr.lastClose.shown /\ Len(dlg.closeSlots) = 2
  /\ tr.lastClose.log = << "onclose", "unrefShow" >>
  /\ tr.lastHandler.path = "pcall failed"
  /\ ~Referenced /\ tr.luaCalls = 1

\* C16: every call of a handler connected by Dialog_connect_signal leaves
\* the Lua stack as high as it found it.
C16_StackBalanced ==
  tr.lastHandler.exit = tr.lastHandler.entry

\* The origin of the grid tile that holds x along one axis: the multiple of
\* size from gridOrigin that is the last one not after x.
TileHolding(gridOrigin, size, x) ==
  CHOOSE t \in (x - size + 1) .. x : (t - gridOrigin) % size = 0

\* The sprite/image bounds cut to the tile that holds the point.
TileOfPoint ==
  createIntersection(
    createIntersection(ff.loop.sprite, ff.loop.srcImage),
    Rect(TileHolding(ff.loop.grid.x, ff.loop.grid.w, ff.x),
         TileHolding(ff.loop.grid.y, ff.loop.grid.h, ff.y),
         ff.loop.grid.w, ff.loop.grid.h))

\* C17: with stop-at-grid on and a grid that is not empty, floodfillBounds
\* returns the bounds cut to the tile, aligned to the grid origin, that
\* holds (x, y), for points and grid origins of either sign.
C17_TileOfThePoint ==
  (ff.pc = "returned" /\ ff.loop.stopAtGrid /\ ~isEmpty(ff.loop.grid)) =>
    ff.area = TileOfPoint

\* 0 <= m_pointRemainder < 1
RemainderInRange ==
  /\ spray.m_pointRemainder.m >= 0
  /\ \/ spray.m_pointRemainder.m = 0
     \/ /\ spray.m_pointRemainder.e < 0
        /\ spray.m_pointRemainder.m < Pow2(-spray.m_pointRemainder.e)

\* w * w * s, which is 400 times the points of one call.
SprayRate == spray.spray_width * spray.spray_width * spray.spray_speed

\* floor(n * w*w*s / 400)
ExactTotal == (spray.calls * SprayRate) \div 400

\* C18 as stated: after every call the carried fraction is in [0, 1) and
\* the sub-points painted in n calls are floor(n * w*w*s / 400).
C18_ExactTotal ==
  spray.pc = "spraying" => RemainderInRange /\ spray.painted = ExactTotal

\* C18, amended: after every call the carried fraction is in [0, 1), and
\* the sub-points painted in n calls are floor(n * w*w*s / 400) when w*w*s
\* is a multiple of 25, which makes every float of the computation exact.
C18_RemainderAndExactRates ==
  spray.pc = "spraying" =>
    /\ RemainderInRange
    /\ (SprayRate % 25 = 0 => spray.painted = ExactTotal)

\* Nine calls at width 5 and speed 2, an eighth of a point each: one point
\* painted and an eighth carried.
C18_Witness ==
  /\ spray.pc = "spraying" /\ spray.calls = 9
  /\ spray.spray_width = 5 /\ spray.spray_speed = 2
  /\ spray.painted = 1 /\ spray.last = 0
  /\ spray.m_pointRemainder = [ m |-> 1, e |-> -3 ]

\* The palette of every row of every frame from fromFrame to toFrame.
RECURSIVE FeedImage(_, _, _)
FeedImage(o, image, y) ==
  IF y > Len(image) THEN o
  ELSE FeedImage(FeedRow(o, image[y], 1), image, y + 1)

RECURSIVE FeedFrames(_, _, _, _)
FeedFrames(o, sprite, frame, toFrame) ==
  IF frame > toFrame THEN o
  ELSE FeedFrames(FeedImage(o, sprite[frame], 1), sprite, frame + 1, toFrame)

CompletePalette ==
  GeneratedPalette(FeedFrames(OctreeDefaultCtor, cps.sprite, cps.fromFrame,
                              cps.toFrame))

Returned == cv.pc = "returned"
Canceled == cv.pc # "idle" /\ cv.sawCancel # -1

\* Rows 1..r of the destination are converted, the others are as before.
ConvertedUpTo(r) ==
  \A y \in DOMAIN dstImage :
    dstImage[y] = IF y <= r THEN ConvertRowPixels(cv.src[y], IndexedPalette)
                            ELSE cv.original[y]

====
